---------------------------- MODULE Spec2Model ----------------------------
(***************************************************************************)
(* A model of the afctl command line client: the `applications` commands   *)
(* (register, connect/activate, list with reconciliation, delete) of       *)
(* af_cli/commands/applications.py and the `tools` commands (add, connect  *)
(* with its bounded poll loop, disconnect, remove) of                      *)
(* af_cli/commands/tools.py, run one command at a time against the remote  *)
(* authorization service and the local application store.                  *)
(*                                                                         *)
(* Python strings whose content the code inspects (tool identifiers,       *)
(* backend namespaces) are sequences of one-character strings, so that     *)
(* startswith() and lower() are computed and not assumed.                  *)
(***************************************************************************)
EXTENDS Integers, Sequences, FiniteSets, TLC

(***************************************************************************)
(* Strings                                                                 *)
(***************************************************************************)
None == "None"

EmptyStr == << >>

S_google == <<"g", "o", "o", "g", "l", "e">>

S_google_ == S_google \o <<"_">>

S_google_drive == S_google_ \o <<"d", "r", "i", "v", "e">>

S_gmail == <<"g", "m", "a", "i", "l">>

S_notion == <<"n", "o", "t", "i", "o", "n">>

S_slack == <<"s", "l", "a", "c", "k">>

S_github == <<"g", "i", "t", "h", "u", "b">>

S_Google == <<"G", "o", "o", "g", "l", "e">>

S_oauth_suffix == <<"_", "o", "a", "u", "t", "h">>

S_google_oauth == S_google \o S_oauth_suffix

S_notion_oauth == S_notion \o S_oauth_suffix

\* str.startswith(prefix)
StartsWith(s, prefix) ==
    /\ Len(s) >= Len(prefix)
    /\ SubSeq(s, 1, Len(prefix)) = prefix

UpperToLower ==
    [A |-> "a", B |-> "b", C |-> "c", D |-> "d", E |-> "e", F |-> "f",
     G |-> "g", H |-> "h", I |-> "i", J |-> "j", K |-> "k", L |-> "l",
     M |-> "m", N |-> "n", O |-> "o", P |-> "p", Q |-> "q", R |-> "r",
     S |-> "s", T |-> "t", U |-> "u", V |-> "v", W |-> "w", X |-> "x",
     Y |-> "y", Z |-> "z"]

\* str.lower()
Lower(s) ==
    [i \in 1..Len(s) |->
        IF s[i] \in DOMAIN UpperToLower THEN UpperToLower[s[i]] ELSE s[i]]

\* bool(x) of an optional string option: None and "" are falsy
Truthy(x) == x # None /\ x # ""

(***************************************************************************)
(* Inputs of the commands                                                  *)
(***************************************************************************)
\* tool names an operator may type
ToolInputs ==
    {S_google_drive, S_gmail, S_notion, S_slack, S_github, S_google,
     S_Google}

\* --method values an operator may type ("basic" is not a method)
MethodInputs == {"api_credentials", "oauth3", "oauth", "basic"}

TokenInputs == {None, "", "tok"}

ClientIdInputs == {None, "id"}

ClientSecretInputs == {None, "sec"}

\* connection ids: commands of the model target TargetIds; OtherId is a
\* second connection of the operator that stays connected throughout
OtherId == "other"

TargetIds == {"c1"}

ConnIds == TargetIds \cup {OtherId}

\* the order in which the service lists the connections
ConnOrder == <<"other", "c1">>

NoConn == [exists |-> FALSE]

\* the fields an initiate response may carry the authorization URL under
InitiateResults ==
    {[authorization_url |-> "url", auth_url |-> None, oauth_url |-> None],
     [authorization_url |-> None, auth_url |-> "url", oauth_url |-> None],
     [authorization_url |-> "", auth_url |-> None, oauth_url |-> "url"],
     [authorization_url |-> None, auth_url |-> None, oauth_url |-> None],
     [authorization_url |-> "", auth_url |-> "", oauth_url |-> ""]}

(***************************************************************************)
(* tools.py: the decisions of add, connect and disconnect                  *)
(***************************************************************************)
\* tools.py: tool.startswith("google_") or tool == "gmail"
IsGoogleTool(tool) == StartsWith(tool, S_google_) \/ tool = S_gmail

IsBareGoogleNever(tool) == FALSE

\* add: tool.lower() == "google"
IsBareGoogle(tool) == Lower(tool) = S_google

ValidMethodsWithoutOauth == {"api_credentials", "oauth3"}

\* add: the methods the validation lets through
ValidMethods == {"api_credentials", "oauth3", "oauth"}

Oauth3AllowsGithub(tool) ==
    IsGoogleTool(tool) \/ tool = S_slack \/ tool = S_notion \/ tool = S_github

\* add: the tools the oauth3 method is available for
Oauth3Allowed(tool) ==
    IsGoogleTool(tool) \/ tool = S_slack \/ tool = S_notion

HasCredentialInputEither(token, client_id, client_secret) ==
    Truthy(token) \/ Truthy(client_id) \/ Truthy(client_secret)

\* add: has_token or has_oauth_creds
HasCredentialInput(token, client_id, client_secret) ==
    Truthy(token) \/ (Truthy(client_id) /\ Truthy(client_secret))

\* add: the validation that precedes the first request; "ok" or the error
AddValidate(tool, method, token, client_id, client_secret) ==
    IF IsBareGoogle(tool) THEN "AmbiguousTool"
    ELSE IF method \notin ValidMethods THEN "InvalidMethod"
    ELSE IF method = "oauth3" /\ ~Oauth3Allowed(tool) THEN "UnsupportedMethod"
    ELSE IF method = "api_credentials"
            /\ ~HasCredentialInput(token, client_id, client_secret)
         THEN "MissingCredentialInput"
    ELSE "ok"

\* add: api_tool_name
AddApiToolName(tool) == IF IsGoogleTool(tool) THEN S_google ELSE tool

\* add: the namespace of the token endpoint, f"/api/v1/tools/{tool}/..."
AddTokenNamespace(tool) == tool

ConnectApiToolNameGoogleOnly(tool, method) ==
    IF IsGoogleTool(tool)
    THEN (IF method = "oauth3" THEN S_google_oauth ELSE S_google)
    ELSE tool

\* connect: api_tool_name
ConnectApiToolName(tool, method) ==
    IF IsGoogleTool(tool)
    THEN (IF method = "oauth3" THEN S_google_oauth ELSE S_google)
    ELSE IF tool = S_notion
    THEN (IF method = "oauth3" THEN S_notion_oauth ELSE S_notion)
    ELSE tool

\* disconnect: api_tool_name
DisconnectApiToolName(tool) == IF IsGoogleTool(tool) THEN S_google ELSE tool

\* a request of the tools commands: the endpoint, the namespace segment of
\* its path (EmptyStr when the path has none), and the query parameters
\* (tool_type EmptyStr and method None when the parameter is left out)
Req(kind, ns, connection_id, tool_type, method, payload) ==
    [kind |-> kind, ns |-> ns, connection_id |-> connection_id,
     tool_type |-> tool_type, method |-> method, payload |-> payload]

ListReq == Req("list_connections", EmptyStr, None, EmptyStr, None, None)

CreateReq(tool, connection_id, method) ==
    Req("create_connection", EmptyStr, connection_id, tool, method, None)

\* add: the token endpoint and payload
StoreTokenReq(tool, connection_id) ==
    IF tool = S_notion
    THEN Req("config", AddTokenNamespace(tool), connection_id, EmptyStr, None,
             "integration_token")
    ELSE Req("connection", AddTokenNamespace(tool), connection_id, EmptyStr,
             None, "api_token")

\* add: the OAuth app config endpoint
StoreConfigReq(tool, connection_id) ==
    Req("config", AddApiToolName(tool), connection_id,
        IF AddApiToolName(tool) = S_google THEN tool ELSE EmptyStr,
        None, "oauth_app")

InitiateReqAlwaysTyped(tool, method, connection_id) ==
    Req("initiate", ConnectApiToolName(tool, method), connection_id,
        tool, IF method = "oauth3" THEN method ELSE None, None)

\* connect: the initiate endpoint
InitiateReq(tool, method, connection_id) ==
    Req("initiate", ConnectApiToolName(tool, method), connection_id,
        IF IsGoogleTool(tool) THEN tool ELSE EmptyStr,
        IF method = "oauth3" THEN method ELSE None,
        None)

DeleteCredentialsReqAsEntry(tool, connection_id) ==
    Req("delete_entry", EmptyStr, connection_id, EmptyStr, None, None)

\* disconnect: the credential-delete endpoint
DeleteCredentialsReq(tool, connection_id) ==
    Req("delete_credentials", DisconnectApiToolName(tool), connection_id,
        IF DisconnectApiToolName(tool) = S_google THEN tool ELSE EmptyStr,
        None, None)

DeleteEntryReqAsCredentials(connection_id) ==
    Req("delete_credentials", EmptyStr, connection_id, EmptyStr, None, None)

\* remove: the entry-delete endpoint
DeleteEntryReq(connection_id) ==
    Req("delete_entry", EmptyStr, connection_id, EmptyStr, None, None)

\* connect: no answer to the initiate request (yet)
NoResult == [received |-> FALSE]

AuthUrlAssumed(result) == "url"

\* connect: result.get("authorization_url") or result.get("auth_url") or
\* result.get("oauth_url")
AuthUrl(result) ==
    IF Truthy(result.authorization_url) THEN result.authorization_url
    ELSE IF Truthy(result.auth_url) THEN result.auth_url
    ELSE result.oauth_url

\* for conn in connections: if conn.get("connection_id") == connection_id:
\* ... break -- the first record of that id, NoConn when there is none
RECURSIVE FindConnection(_, _)
FindConnection(connections, connection_id) ==
    IF connections = << >> THEN NoConn
    ELSE IF Head(connections).connection_id = connection_id
         THEN Head(connections)
    ELSE FindConnection(Tail(connections), connection_id)

IsConnectedUnchecked(connection) == TRUE

\* connect, disconnect: connection.get("connected")
IsConnected(connection) == connection.connected

\* connect: max_attempts
max_attempts == 120


(***************************************************************************)
(* Applications: identifiers and records                                   *)
(***************************************************************************)
AppIds == {"A", "B", "C"}

\* the order in which the local store lists its records
AppOrder == <<"A", "B", "C">>

Tokens == {"t1"}

NoRecord == [app_id |-> None]

NoToken == [st |-> "unissued", app_id |-> None, owner |-> None,
            tool_connections |-> << >>]

NoData == [app_id |-> None]

NoCmd == [name |-> "none"]

NoRun == [connection_id |-> None, outcomes |-> << >>]

\* config.gateway_url
gateway_url == "https://gateway"

(***************************************************************************)
(* State                                                                   *)
(***************************************************************************)
VARIABLES
    authenticated,   \* config.is_authenticated()
    localStore,      \* LocalStateStore: app_id -> record (NoRecord: no file)
    srvApps,         \* service: the operator's applications (app ids)
    srvTokens,       \* service: the activation tokens
    srvConns,        \* service: the operator's tool connections
    pc,              \* "idle", "polling" (connect's poll loop) or "done"
    cmd,             \* the command running or last run, with its arguments
                     \* (and, for connect and disconnect, the tool of the
                     \* connection once it has been looked up)
    outcome,         \* how the command ended ("none" while it runs)
    exitCode,        \* its exit code (-1 while it runs)
    sent,            \* the requests it sent, in order (the polls excepted)
    polls,           \* connect: poll requests sent
    pollError,       \* connect: the last poll request raised
    timedOut,        \* the connection whose latest handshake ended in
                     \* AuthorizationTimeout (None: there is none)
    browserOpens,    \* connect: webbrowser.open calls
    sawConnectedAt,  \* connect: the first poll whose listing showed the
                     \* target connected (0: none has)
    status,          \* applications: the HTTP status received (0: no
                     \* request sent, -1: transport error)
    respData,        \* applications: the body of the response (of a 201
                     \* from activate, of any answer to list)
    returned,        \* applications list: the app ids listed, in order
    orphaned,        \* applications list: the app ids cleaned up, in order
    warned,          \* applications list: the sync warning was printed
    disconnectRun    \* the outcomes of the disconnects just run in a row on
                     \* one connection, from a successful one on, nothing
                     \* else having happened in between (at most two)

srvVars == <<srvApps, srvTokens, srvConns>>

appsState == <<authenticated, localStore, srvApps, srvTokens>>

toolsObs == <<polls, pollError, browserOpens, sawConnectedAt>>

appsObs == <<status, respData, returned, orphaned, warned>>

cmdObs == <<pc, cmd, outcome, exitCode, sent>>

vars == <<authenticated, localStore, srvApps, srvTokens, srvConns, pc, cmd,
          outcome, exitCode, sent, polls, pollError, timedOut, browserOpens,
          sawConnectedAt,
          status, respData, returned, orphaned, warned, disconnectRun>>

\* the operator's other connection: a connected Slack bot
OtherConn ==
    [exists |-> TRUE, tool |-> S_slack, method |-> "api_credentials",
     configured |-> TRUE, connected |-> TRUE, pending |-> FALSE]

Init ==
    /\ authenticated \in BOOLEAN
    /\ localStore = [a \in AppIds |-> NoRecord]
    /\ srvApps = {}
    /\ srvTokens = [t \in Tokens |-> NoToken]
    /\ srvConns = [c \in ConnIds |-> IF c = OtherId THEN OtherConn ELSE NoConn]
    /\ pc = "idle"
    /\ cmd = NoCmd
    /\ outcome = "none"
    /\ exitCode = -1
    /\ sent = << >>
    /\ polls = 0
    /\ pollError = FALSE
    /\ timedOut = None
    /\ browserOpens = 0
    /\ sawConnectedAt = 0
    /\ status = 0
    /\ respData = NoData
    /\ returned = << >>
    /\ orphaned = << >>
    /\ warned = FALSE
    /\ disconnectRun = NoRun

\* a command starts from the prompt: no other command is running
AtPrompt == pc = "idle"

\* what a connect displayed is reset by every other command; which
\* handshake timed out is history, and stays
ToolsObsReset ==
    /\ polls' = 0 /\ pollError' = FALSE /\ browserOpens' = 0
    /\ sawConnectedAt' = 0
    /\ UNCHANGED timedOut

AppsObsReset ==
    /\ status' = 0
    /\ respData' = NoData
    /\ returned' = << >>
    /\ orphaned' = << >>
    /\ warned' = FALSE

\* the command c ends with the outcome out and exit code code, having sent reqs
Finished(c, out, code, reqs) ==
    /\ pc' = "done"
    /\ cmd' = c
    /\ outcome' = out
    /\ exitCode' = code
    /\ sent' = reqs

\* the command has ended and the shell prompts again: what it reported
\* scrolls away
Prompt ==
    /\ pc = "done"
    /\ pc' = "idle"
    /\ cmd' = NoCmd
    /\ outcome' = "none"
    /\ exitCode' = -1
    /\ sent' = << >>
    /\ ToolsObsReset
    /\ AppsObsReset
    /\ disconnectRun' =
          IF Len(disconnectRun.outcomes) = 2 THEN NoRun ELSE disconnectRun
    /\ UNCHANGED <<authenticated, localStore, srvVars>>

\* a step of the environment happens between commands or while a connect
\* is polling
EnvStep ==
    /\ pc \in {"idle", "polling"}
    /\ disconnectRun' = NoRun
    /\ UNCHANGED <<cmdObs, toolsObs, timedOut, appsObs>>

(***************************************************************************)
(* The service's connection endpoints, as the tools commands consume them  *)
(***************************************************************************)
\* GET /api/v1/user-connections: the records of the existing connections
Listing(conns) ==
    LET rec(c) == [connection_id |-> c, tool |-> conns[c].tool,
                   method |-> conns[c].method,
                   connected |-> conns[c].connected]
        RECURSIVE build(_)
        build(ids) ==
            IF ids = << >> THEN << >>
            ELSE IF conns[Head(ids)].exists
                 THEN <<rec(Head(ids))>> \o build(Tail(ids))
                 ELSE build(Tail(ids))
    IN build(ConnOrder)

\* POST /api/v1/user-connections
SrvCreate(conns, tool, connection_id, method) ==
    [conns EXCEPT ![connection_id] =
        [exists |-> TRUE, tool |-> tool, method |-> method,
         configured |-> FALSE, connected |-> FALSE, pending |-> FALSE]]

\* POST .../config or .../connection: a stored token makes the connection
\* usable at once, a stored OAuth app leaves it to be authorized
SrvStore(conns, connection_id, payload) ==
    [conns EXCEPT ![connection_id].configured = TRUE,
                  ![connection_id].connected =
                        IF payload = "oauth_app" THEN @ ELSE TRUE]

\* POST .../connect/initiate that answered with an authorization URL; the
\* service may or may not drop the previous authorization
SrvInitiate(conns, connection_id, clears) ==
    [conns EXCEPT ![connection_id].pending = TRUE,
                  ![connection_id].connected = IF clears THEN FALSE ELSE @]

\* the user completes the authorization in the browser
SrvAuthorize(conns, connection_id) ==
    [conns EXCEPT ![connection_id].pending = FALSE,
                  ![connection_id].configured = TRUE,
                  ![connection_id].connected = TRUE]

\* DELETE .../connection: the stored credentials are gone
SrvDeleteCredentials(conns, connection_id) ==
    [conns EXCEPT ![connection_id].pending = FALSE,
                  ![connection_id].connected = FALSE]

\* DELETE /api/v1/user-connections/{id}
SrvDeleteEntry(conns, connection_id) ==
    [conns EXCEPT ![connection_id] = NoConn]

\* whether a listing shows the connection of that id connected
ListingReports(listing, connection_id) ==
    \E i \in 1..Len(listing) :
        /\ listing[i].connection_id = connection_id
        /\ listing[i].connected


(***************************************************************************)
(* tools.py: the commands                                                  *)
(***************************************************************************)
StoreFailedRolledBack(conns, connection_id) ==
    SrvDeleteEntry(conns, connection_id)

\* add: the credential request raised; `except Exception` reports the
\* failure and exits, and conns, the service's connections after the
\* create, are left as they are
StoreFailed(conns, connection_id) == conns

\* `afctl tools add`: createOK, storeOK say whether the service answers the
\* create and the store request (a request that fails raises, and the
\* handler's except clause ends the command with exit code 1)
Add(tool, connection_id, method, token, client_id, client_secret, createOK, storeOK) ==
    LET c == [name |-> "tools add", tool |-> tool,
              connection_id |-> connection_id, method |-> method,
              token |-> token, client_id |-> client_id,
              client_secret |-> client_secret]
        v == AddValidate(tool, method, token, client_id, client_secret)
        create == CreateReq(tool, connection_id, method)
        store == IF Truthy(token) THEN StoreTokenReq(tool, connection_id)
                 ELSE StoreConfigReq(tool, connection_id)
        created == SrvCreate(srvConns, tool, connection_id, method)
    IN
    /\ AtPrompt
    /\ ToolsObsReset
    /\ AppsObsReset
    /\ disconnectRun' = NoRun
    /\ UNCHANGED appsState
    /\ IF v # "ok"
       THEN Finished(c, v, 1, << >>) /\ UNCHANGED srvConns
       ELSE IF ~createOK \/ srvConns[connection_id].exists
       THEN Finished(c, "RequestFailed", 1, <<create>>) /\ UNCHANGED srvConns
       ELSE IF method = "oauth3"
       THEN Finished(c, "Success", 0, <<create>>) /\ srvConns' = created
       ELSE IF method = "api_credentials"
       THEN IF storeOK
            THEN /\ Finished(c, "Success", 0, <<create, store>>)
                 /\ srvConns' = SrvStore(created, connection_id, store.payload)
            ELSE /\ Finished(c, "RequestFailed", 1, <<create, store>>)
                 /\ srvConns' = StoreFailed(created, connection_id)
       ELSE Finished(c, "DeprecatedMethod", 1, <<create>>) /\ srvConns' = created

ToolsLocalStoreCleared(store) == [a \in AppIds |-> NoRecord]

\* connect, disconnect, remove: the local application store after any of
\* their steps; none of them calls a function of the store
ToolsLocalStore(store) == store

OpenedBrowsersNone(opened, auth_url) == opened

\* connect: webbrowser.open(auth_url), by the count of browser openings
OpenedBrowsers(opened, auth_url) == opened + 1

InitiateReqsRetried(tool, method, connection_id) ==
    <<InitiateReq(tool, method, connection_id),
      InitiateReq(tool, method, connection_id)>>

\* connect: the requests that initiate the handshake: one POST, sent once
InitiateReqs(tool, method, connection_id) ==
    <<InitiateReq(tool, method, connection_id)>>

AsksNever(connection, yes) == FALSE

\* connect: the operator is asked whether to reconnect
AsksToReconnect(connection, yes) == IsConnected(connection) /\ ~yes

\* `afctl tools connect`, up to the poll loop: the listing, the
\* confirmation of a reconnect (confirm is the operator's answer, should
\* the question be asked), the initiate request, the browser
ConnectStart(connection_id, yes, confirm, listOK, initOK, result, clears) ==
    LET connection == FindConnection(Listing(srvConns), connection_id)
        asked == listOK /\ connection # NoConn
                 /\ AsksToReconnect(connection, yes)
        c == [name |-> "tools connect", connection_id |-> connection_id,
              yes |-> yes,
              answer |-> IF ~asked THEN "unasked"
                         ELSE IF confirm THEN "yes" ELSE "no",
              result |-> IF listOK /\ connection # NoConn
                            /\ ~(asked /\ ~confirm) /\ initOK
                         THEN result ELSE NoResult,
              tool |-> IF listOK /\ connection # NoConn
                       THEN connection["tool"] ELSE EmptyStr,
              method |-> IF listOK /\ connection # NoConn
                         THEN connection["method"] ELSE None]
        init == InitiateReqs(connection.tool, connection.method, connection_id)
    IN
    /\ AtPrompt
    /\ AppsObsReset
    /\ polls' = 0
    /\ pollError' = FALSE
    /\ sawConnectedAt' = 0
    /\ disconnectRun' = NoRun
    /\ localStore' = ToolsLocalStore(localStore)
    /\ UNCHANGED <<authenticated, srvApps, srvTokens>>
    /\ IF ~listOK
       THEN /\ Finished(c, "RequestFailed", 1, <<ListReq>>)
            /\ browserOpens' = 0 /\ UNCHANGED srvConns
       ELSE IF connection = NoConn
       THEN /\ Finished(c, "NotFound", 1, <<ListReq>>)
            /\ browserOpens' = 0 /\ UNCHANGED srvConns
       ELSE IF AsksToReconnect(connection, yes) /\ ~confirm
       THEN /\ Finished(c, "Skipped", 0, <<ListReq>>)
            /\ browserOpens' = 0 /\ UNCHANGED srvConns
       ELSE IF ~initOK
       THEN /\ Finished(c, "RequestFailed", 1, <<ListReq>> \o init)
            /\ browserOpens' = 0 /\ UNCHANGED srvConns
       ELSE IF ~Truthy(AuthUrl(result))
       THEN /\ Finished(c, "NoAuthorizationUrl", 1, <<ListReq>> \o init)
            /\ browserOpens' = 0 /\ UNCHANGED srvConns
       ELSE /\ pc' = "polling"
            /\ cmd' = c
            /\ outcome' = "none"
            /\ exitCode' = -1
            /\ sent' = <<ListReq>> \o init
            /\ browserOpens' = OpenedBrowsers(0, AuthUrl(result))
            /\ srvConns' = SrvInitiate(srvConns, connection_id, clears)
    /\ timedOut' = IF pc' = "polling" /\ timedOut = connection_id
                   THEN None ELSE timedOut

PollsOnePastBound(n) == n > max_attempts

FailedPollCounted(n) ==
    IF n >= max_attempts
    THEN [pc |-> "done", outcome |-> "AuthorizationTimeout", exitCode |-> 1]
    ELSE [pc |-> "polling", outcome |-> "none", exitCode |-> -1]

\* connect: client.get raises in the attempt numbered n; the exception
\* leaves the loop for `except Exception`: "Failed to connect", Exit(1)
FailedPoll(n) ==
    [pc |-> "done", outcome |-> "RequestFailed", exitCode |-> 1]

\* connect: the attempt numbered n was the last of range(max_attempts)
LastAttempt(n) == n >= max_attempts

ShowsAnyConnected(connections, connection_id) ==
    \E i \in 1..Len(connections) : connections[i].connected

\* connect: the poll's test of a listing, conn.get("connected") of the
\* record of that id
ShowsConnected(connections, connection_id) ==
    LET conn == FindConnection(connections, connection_id)
    IN conn # NoConn /\ IsConnected(conn)

\* connect: one iteration of the poll loop (sleep, list, test)
Poll(listOK) ==
    LET n == polls + 1
        connections == Listing(srvConns)
    IN
    /\ pc = "polling"
    /\ polls' = n
    /\ pollError' = ~listOK
    /\ sawConnectedAt' =
          IF listOK /\ sawConnectedAt = 0
             /\ ListingReports(connections, cmd.connection_id)
          THEN n ELSE sawConnectedAt
    /\ disconnectRun' = NoRun
    /\ localStore' = ToolsLocalStore(localStore)
    /\ UNCHANGED <<authenticated, srvApps, srvTokens>>
    /\ UNCHANGED <<srvConns, appsObs, browserOpens, sent, cmd>>
    /\ IF ~listOK
       THEN /\ pc' = FailedPoll(n).pc
            /\ outcome' = FailedPoll(n).outcome
            /\ exitCode' = FailedPoll(n).exitCode
       ELSE IF ShowsConnected(connections, cmd.connection_id)
       THEN pc' = "done" /\ outcome' = "Connected" /\ exitCode' = 0
       ELSE IF LastAttempt(n)
       THEN pc' = "done" /\ outcome' = "AuthorizationTimeout" /\ exitCode' = 1
       ELSE UNCHANGED <<pc, outcome, exitCode>>
    /\ timedOut' = IF outcome' = "AuthorizationTimeout"
                   THEN cmd.connection_id ELSE timedOut

\* `afctl tools disconnect`
Disconnect(connection_id, force, confirm, listOK, deleteOK) ==
    LET connection == FindConnection(Listing(srvConns), connection_id)
        c == [name |-> "tools disconnect", connection_id |-> connection_id,
              tool |-> IF listOK /\ connection # NoConn
                       THEN connection["tool"] ELSE EmptyStr]
        del == DeleteCredentialsReq(connection.tool, connection_id)
    IN
    /\ AtPrompt
    /\ ToolsObsReset
    /\ AppsObsReset
    /\ localStore' = ToolsLocalStore(localStore)
    /\ UNCHANGED <<authenticated, srvApps, srvTokens>>
    /\ IF ~listOK
       THEN Finished(c, "RequestFailed", 1, <<ListReq>>) /\ UNCHANGED srvConns
       ELSE IF connection = NoConn
       THEN Finished(c, "NotFound", 1, <<ListReq>>) /\ UNCHANGED srvConns
       ELSE IF ~IsConnected(connection)
       THEN /\ Finished(c, "AlreadyDisconnected", 1, <<ListReq>>)
            /\ UNCHANGED srvConns
       ELSE IF ~force /\ ~confirm
       THEN Finished(c, "Cancelled", 0, <<ListReq>>) /\ UNCHANGED srvConns
       ELSE IF ~deleteOK
       THEN /\ Finished(c, "RequestFailed", 1, <<ListReq, del>>)
            /\ UNCHANGED srvConns
       ELSE /\ Finished(c, "Success", 0, <<ListReq, del>>)
            /\ srvConns' = SrvDeleteCredentials(srvConns, connection_id)
    /\ disconnectRun' =
          IF disconnectRun.connection_id = connection_id
          THEN [disconnectRun EXCEPT !.outcomes = Append(@, outcome')]
          ELSE IF outcome' = "Success"
          THEN [connection_id |-> connection_id, outcomes |-> <<"Success">>]
          ELSE NoRun

\* `afctl tools remove`
Remove(connection_id, force, confirm, listOK, deleteOK) ==
    LET c == [name |-> "tools remove", connection_id |-> connection_id,
              force |-> force, confirm |-> ~force /\ confirm]
        connection == FindConnection(Listing(srvConns), connection_id)
        del == DeleteEntryReq(connection_id)
    IN
    /\ AtPrompt
    /\ ToolsObsReset
    /\ AppsObsReset
    /\ localStore' = ToolsLocalStore(localStore)
    /\ UNCHANGED <<authenticated, srvApps, srvTokens>>
    /\ IF ~listOK
       THEN Finished(c, "RequestFailed", 1, <<ListReq>>) /\ UNCHANGED srvConns
       ELSE IF connection = NoConn
       THEN Finished(c, "NotFound", 1, <<ListReq>>) /\ UNCHANGED srvConns
       ELSE IF ~force /\ ~confirm
       THEN Finished(c, "Cancelled", 0, <<ListReq>>) /\ UNCHANGED srvConns
       ELSE IF ~deleteOK
       THEN /\ Finished(c, "RequestFailed", 1, <<ListReq, del>>)
            /\ UNCHANGED srvConns
       ELSE /\ Finished(c, "Success", 0, <<ListReq, del>>)
            /\ srvConns' = SrvDeleteEntry(srvConns, connection_id)
    /\ disconnectRun' = NoRun

\* the user completes, in the browser, an authorization that was initiated
UserAuthorizes(connection_id) ==
    /\ srvConns[connection_id].exists
    /\ srvConns[connection_id].pending
    /\ srvConns' = SrvAuthorize(srvConns, connection_id)
    /\ EnvStep
    /\ UNCHANGED appsState

\* the connection is removed from elsewhere (the dashboard)
RemovedElsewhere(connection_id) ==
    /\ srvConns[connection_id].exists
    /\ srvConns' = SrvDeleteEntry(srvConns, connection_id)
    /\ EnvStep
    /\ UNCHANGED appsState

\* the answers that matter to an add: none when it sends no request
AddAnswers(tool, method, token, client_id, client_secret) ==
    IF AddValidate(tool, method, token, client_id, client_secret) # "ok"
    THEN {<<FALSE, FALSE>>}
    ELSE IF method = "api_credentials"
    THEN {<<FALSE, FALSE>>, <<TRUE, FALSE>>, <<TRUE, TRUE>>}
    ELSE {<<FALSE, FALSE>>, <<TRUE, FALSE>>}

AddCmd ==
    /\ AtPrompt
    /\ \E tool \in ToolInputs, connection_id \in TargetIds,
          method \in MethodInputs, token \in TokenInputs,
          client_id \in ClientIdInputs, client_secret \in ClientSecretInputs :
           \E ok \in AddAnswers(tool, method, token, client_id, client_secret) :
               Add(tool, connection_id, method, token, client_id, client_secret,
                   ok[1], ok[2])

ConnectCmd ==
    /\ AtPrompt
    /\ \E connection_id \in TargetIds, yes \in BOOLEAN, confirm \in BOOLEAN,
          listOK \in BOOLEAN, initOK \in BOOLEAN, result \in InitiateResults,
          clears \in BOOLEAN :
           ConnectStart(connection_id, yes, confirm, listOK, initOK, result,
                        clears)

PollStep == pc = "polling" /\ \E listOK \in BOOLEAN : Poll(listOK)

DisconnectCmd ==
    /\ AtPrompt
    /\ \E connection_id \in TargetIds, force \in BOOLEAN, confirm \in BOOLEAN,
          listOK \in BOOLEAN, deleteOK \in BOOLEAN :
           Disconnect(connection_id, force, confirm, listOK, deleteOK)

RemoveCmd ==
    /\ AtPrompt
    /\ \E connection_id \in TargetIds, force \in BOOLEAN, confirm \in BOOLEAN,
          listOK \in BOOLEAN, deleteOK \in BOOLEAN :
           Remove(connection_id, force, confirm, listOK, deleteOK)

AuthorizeEnv == \E connection_id \in TargetIds : UserAuthorizes(connection_id)

RemovedEnv == \E connection_id \in TargetIds : RemovedElsewhere(connection_id)

NextTools ==
    \/ Prompt
    \/ AddCmd
    \/ ConnectCmd
    \/ PollStep
    \/ DisconnectCmd
    \/ RemoveCmd
    \/ AuthorizeEnv
    \/ RemovedEnv

\* the tools commands, run one after another against the service
SpecTools == Init /\ [][NextTools]_vars


(***************************************************************************)
(* LocalStateStore (af_sdk) and the service's application endpoints, as    *)
(* the applications commands consume them                                  *)
(***************************************************************************)
\* af_sdk.list_applications(): every cached record
ListLocalApps(store) ==
    LET RECURSIVE build(_)
        build(ids) ==
            IF ids = << >> THEN << >>
            ELSE IF store[Head(ids)] # NoRecord
                 THEN <<store[Head(ids)]>> \o build(Tail(ids))
                 ELSE build(Tail(ids))
    IN build(AppOrder)

\* af_sdk.load_application_config(app_id): the cached record, NoRecord
\* standing for ApplicationNotFoundError
LoadApplicationConfig(store, app_id) == store[app_id]

\* af_sdk.save_application_config(app_id, config)
SaveApplicationConfig(store, app_id, config) ==
    [store EXCEPT ![app_id] = config]

\* af_sdk.delete_application_config(app_id)
DeleteApplicationConfig(store, app_id) ==
    [store EXCEPT ![app_id] = NoRecord]

\* the --connections and --scopes of a register, parsed: connection id ->
\* scopes (a pair not of the form tool:conn-id is the input wellFormed =
\* FALSE of the command)
ToolConnectionInputs == {[c1 |-> <<"slack:read">>]}

\* POST /applications/activate: the statuses the service may answer with.
\* A token that is unknown, used or expired is not found; one of another
\* operator is forbidden; an app_id already taken is a conflict
SrvActivateStatuses(tokens, apps, token) ==
    LET t == tokens[token]
    IN IF t.st # "valid"
       THEN (IF t.owner = "other" THEN {404, 403} ELSE {404})
       ELSE IF t.owner # "me" THEN {403}
       ELSE IF t.app_id \in apps THEN {409}
       ELSE {201}

\* the permanent secret the service makes up at an activation
SecretKeys == [t \in Tokens |-> "sk-live"]

\* the body of a 201 from activate
SrvActivateData(tokens, token) ==
    [app_id |-> tokens[token].app_id,
     secret_key |-> SecretKeys[token],
     user_id |-> "me",
     tenant_id |-> "tenant",
     tool_connections |-> tokens[token].tool_connections,
     created_at |-> "2025-01-01T00:00:00"]

\* DELETE /applications/{app_id}
SrvDeleteStatus(apps, app_id) == IF app_id \in apps THEN 204 ELSE 404

\* DELETE /applications/{app_id}: the applications left after the service
\* has answered with the status code
SrvDelete(apps, app_id, code) ==
    IF code = 204 THEN apps \ {app_id} ELSE apps

\* GET /applications, status 200: the body, with the operator's
\* applications under its applications field, or without that field
SrvListApplications(apps, hasField) ==
    LET RECURSIVE build(_)
        build(ids) ==
            IF ids = << >> THEN << >>
            ELSE IF Head(ids) \in apps
                 THEN <<[app_id |-> Head(ids)]>> \o build(Tail(ids))
                 ELSE build(Tail(ids))
    IN [readable |-> TRUE, hasField |-> hasField,
        applications |-> IF hasField THEN build(AppOrder) ELSE << >>]

\* a 200 whose body is not JSON
UnreadableBody == [readable |-> FALSE, hasField |-> FALSE,
                   applications |-> << >>]

(***************************************************************************)
(* applications.py: the commands                                           *)
(***************************************************************************)
AppReq(kind, app_id, token) ==
    [kind |-> kind, app_id |-> app_id, activation_token |-> token]

RequiresLoginNever(isAuthenticated) == FALSE

\* register, connect, delete: if not config.is_authenticated()
RequiresLogin(isAuthenticated) == ~isAuthenticated

\* ... "Not authenticated. Run 'afctl auth login' first.", Exit(1)
NotAuthenticated(c) ==
    /\ Finished(c, "Unauthenticated", 1, << >>)
    /\ AppsObsReset
    /\ UNCHANGED <<localStore, srvApps, srvTokens>>

RegisterCachesToken(store, app_id, activation_token) ==
    [store EXCEPT ![app_id] =
        [app_id |-> app_id, activation_token |-> activation_token]]

\* register_application after a 201: the activation token is displayed,
\* and nothing is written to the local store
RegisterLocalStore(store, app_id, activation_token) == store

\* `afctl applications register`: code is -1 (the transport fails) or the
\* status the service answers with, token the token it issues with a 201
RegisterApplication(app_id, wellFormed, tool_connections, code, token) ==
    LET c == [name |-> "applications register", app_id |-> app_id]
        req == AppReq("register", app_id, None)
    IN
    /\ AtPrompt
    /\ ToolsObsReset
    /\ disconnectRun' = NoRun
    /\ UNCHANGED <<authenticated, srvConns>>
    /\ IF RequiresLogin(authenticated) THEN NotAuthenticated(c)
       ELSE IF ~wellFormed
       THEN /\ Finished(c, "InvalidConnectionFormat", 1, << >>)
            /\ AppsObsReset
            /\ UNCHANGED <<localStore, srvApps, srvTokens>>
       ELSE /\ UNCHANGED srvApps
            /\ status' = code
            /\ respData' = NoData /\ returned' = << >> /\ orphaned' = << >>
            /\ warned' = FALSE
            /\ IF code = -1
               THEN /\ Finished(c, "NetworkError", 1, <<req>>)
                    /\ UNCHANGED <<localStore, srvTokens>>
               ELSE IF code # 201
               THEN /\ Finished(c, "RegisterFailed", 1, <<req>>)
                    /\ UNCHANGED <<localStore, srvTokens>>
               ELSE /\ srvTokens[token].st = "unissued"
                    /\ Finished(c, "Success", 0, <<req>>)
                    /\ localStore' = RegisterLocalStore(localStore, app_id,
                                                       token)
                    /\ srvTokens' = [srvTokens EXCEPT ![token] =
                          [st |-> "valid", app_id |-> app_id, owner |-> "me",
                           tool_connections |-> tool_connections]]

ActivateOutcomeLenient(code) ==
    IF code = 404 THEN "TokenInvalidOrExpired"
    ELSE IF code = 403 THEN "TokenOwnershipMismatch"
    ELSE "Success"

ActivateOutcomeSwapped(code) ==
    IF code = 403 THEN "TokenInvalidOrExpired"
    ELSE IF code = 404 THEN "TokenOwnershipMismatch"
    ELSE IF code # 201 THEN "ActivateFailed"
    ELSE "Success"

\* connect_application: what a status of the activate response leads to
ActivateOutcome(code) ==
    IF code = 404 THEN "TokenInvalidOrExpired"
    ELSE IF code = 403 THEN "TokenOwnershipMismatch"
    ELSE IF code # 201 THEN "ActivateFailed"
    ELSE "Success"

AppConfigNoSecret(data, gateway) ==
    [app_id |-> data.app_id,
     secret_key |-> None,
     user_id |-> data.user_id,
     tenant_id |-> data.tenant_id,
     tool_connections |-> data.tool_connections,
     created_at |-> data.created_at,
     gateway_url |-> gateway]

\* connect_application: app_config
AppConfig(data, gateway) ==
    [app_id |-> data["app_id"],
     secret_key |-> data["secret_key"],
     user_id |-> data["user_id"],
     tenant_id |-> data["tenant_id"],
     tool_connections |-> data["tool_connections"],
     created_at |-> data["created_at"],
     gateway_url |-> gateway]

\* `afctl applications connect`: code is -1 (the transport fails) or the
\* status the service answers with
ConnectApplication(app_id, token, code) ==
    LET c == [name |-> "applications connect", app_id |-> app_id,
              token |-> token]
        req == AppReq("activate", None, token)
        data == SrvActivateData(srvTokens, token)
    IN
    /\ AtPrompt
    /\ ToolsObsReset
    /\ disconnectRun' = NoRun
    /\ UNCHANGED <<authenticated, srvConns>>
    /\ IF RequiresLogin(authenticated) THEN NotAuthenticated(c)
       ELSE /\ status' = code
            /\ returned' = << >> /\ orphaned' = << >> /\ warned' = FALSE
            /\ IF code = -1
               THEN /\ Finished(c, "NetworkError", 1, <<req>>)
                    /\ respData' = NoData
                    /\ UNCHANGED <<localStore, srvApps, srvTokens>>
               ELSE IF ActivateOutcome(code) # "Success"
               THEN /\ Finished(c, ActivateOutcome(code), 1, <<req>>)
                    /\ respData' = NoData
                    /\ UNCHANGED <<localStore, srvApps, srvTokens>>
               ELSE /\ Finished(c, "Success", 0, <<req>>)
                    /\ respData' = data
                    /\ localStore' = SaveApplicationConfig(
                          localStore, data["app_id"],
                          AppConfig(data, gateway_url))
                    /\ srvApps' = srvApps \cup {data.app_id}
                    /\ srvTokens' = [srvTokens EXCEPT ![token].st = "used"]


\* list.remove(x): the list without its first element equal to x
RECURSIVE RemoveFirst(_, _)
RemoveFirst(list, x) ==
    IF list = << >> THEN << >>
    ELSE IF Head(list) = x THEN Tail(list)
    ELSE <<Head(list)>> \o RemoveFirst(Tail(list), x)

\* list_applications: the reconciliation loop over a copy of local_apps,
\* from its position i on; st is <<local_apps, orphaned, store>>
RECURSIVE ReconcileFrom(_, _, _, _)
ReconcileFrom(copy, i, server_app_ids, st) ==
    IF i > Len(copy) THEN st
    ELSE LET local_app == copy[i]
         IN IF local_app["app_id"] \notin server_app_ids
            THEN ReconcileFrom(copy, i + 1, server_app_ids,
                    <<RemoveFirst(st[1], local_app),
                      Append(st[2], local_app["app_id"]),
                      DeleteApplicationConfig(st[3], local_app["app_id"])>>)
            ELSE ReconcileFrom(copy, i + 1, server_app_ids, st)

ReconcileKeepsFiles(local_apps, server_apps, store) ==
    LET ids == {server_apps[k].app_id : k \in 1..Len(server_apps)}
        kept == SelectSeq(local_apps, LAMBDA r : r.app_id \in ids)
        gone == SelectSeq(local_apps, LAMBDA r : r.app_id \notin ids)
    IN <<kept, [k \in 1..Len(gone) |-> gone[k].app_id], store>>

ReconcileMirrorsServer(local_apps, server_apps, store) ==
    <<server_apps, << >>,
      [a \in AppIds |->
          IF \E k \in 1..Len(server_apps) : server_apps[k].app_id = a
          THEN [app_id |-> a] ELSE NoRecord]>>

ReconcileDropsAll(local_apps, server_apps, store) ==
    <<<< >>, [k \in 1..Len(local_apps) |-> local_apps[k].app_id],
      [a \in AppIds |-> NoRecord]>>

\* list_applications: server_app_ids and the clean-up of the orphans;
\* <<local_apps, orphaned, store>> afterwards
Reconcile(local_apps, server_apps, store) ==
    LET server_app_ids == {server_apps[k]["app_id"] : k \in 1..Len(server_apps)}
    IN ReconcileFrom(local_apps, 1, server_app_ids,
                     <<local_apps, << >>, store>>)

AppIdsOf(records) == [k \in 1..Len(records) |-> records[k].app_id]

FetchedAnyStatus(code, body) == code # -1 /\ body.readable

\* list_applications: response.status_code == 200, and response.json()
\* does not raise
Fetched(code, body) == code = 200 /\ body.readable

\* list_applications: data.get("applications", [])
ServerApps(body) == IF body.hasField THEN body.applications ELSE << >>

SyncsUnauthenticated(sync, isAuthenticated) == sync

\* list_applications: sync and config.is_authenticated()
Syncs(sync, isAuthenticated) == sync /\ isAuthenticated

\* `afctl applications list`: code is -1 (the transport fails) or the
\* status the service answers with; a 200's body is unreadable (badBody),
\* or has the applications field or lacks it (hasField)
ListApplications(sync, code, badBody, hasField) ==
    LET c == [name |-> "applications list", sync |-> sync]
        req == AppReq("list", None, None)
        local_apps == ListLocalApps(localStore)
        body == IF badBody THEN UnreadableBody
                ELSE SrvListApplications(srvApps, hasField)
        r == Reconcile(local_apps, ServerApps(body), localStore)
    IN
    /\ AtPrompt
    /\ ToolsObsReset
    /\ disconnectRun' = NoRun
    /\ UNCHANGED <<authenticated, srvVars>>
    /\ IF ~Syncs(sync, authenticated)
       THEN /\ Finished(c, "Success", 0, << >>)
            /\ respData' = NoData
            /\ status' = 0 /\ warned' = FALSE /\ orphaned' = << >>
            /\ returned' = AppIdsOf(local_apps)
            /\ UNCHANGED localStore
       ELSE /\ Finished(c, "Success", 0, <<req>>)
            /\ status' = code
            /\ respData' = IF code = -1 THEN NoData ELSE body
            /\ IF Fetched(code, body)
               THEN /\ returned' = AppIdsOf(r[1])
                    /\ orphaned' = r[2]
                    /\ localStore' = r[3]
                    /\ warned' = FALSE
               ELSE /\ returned' = AppIdsOf(local_apps)
                    /\ orphaned' = << >>
                    /\ warned' = (code = -1)
                    /\ UNCHANGED localStore

DeleteFailsNever(code) == FALSE

DeleteFailsOn404(code) == code # 204

\* delete_application: a 404 is passed over, any other status but 204 fails
DeleteFails(code) == code # 404 /\ code # 204

\* `afctl applications delete`: code is -1 (the transport fails) or the
\* status the service answers with
DeleteApplication(app_id, yes, confirm, code) ==
    LET c == [name |-> "applications delete", app_id |-> app_id]
        req == AppReq("delete", app_id, None)
    IN
    /\ AtPrompt
    /\ ToolsObsReset
    /\ disconnectRun' = NoRun
    /\ UNCHANGED <<authenticated, srvConns, srvTokens>>
    /\ IF RequiresLogin(authenticated)
       THEN NotAuthenticated(c) /\ UNCHANGED srvApps
       ELSE /\ respData' = NoData /\ returned' = << >> /\ orphaned' = << >>
            /\ IF ~yes /\ ~confirm
               THEN /\ Finished(c, "Cancelled", 0, << >>)
                    /\ status' = 0 /\ warned' = FALSE
                    /\ UNCHANGED <<localStore, srvApps>>
               ELSE /\ status' = code
                    /\ warned' = (code = 404)
                    /\ IF code = -1
                       THEN /\ Finished(c, "NetworkError", 1, <<req>>)
                            /\ UNCHANGED <<localStore, srvApps>>
                       ELSE IF DeleteFails(code)
                       THEN /\ Finished(c, "DeleteFailed", 1, <<req>>)
                            /\ UNCHANGED <<localStore, srvApps>>
                       ELSE /\ Finished(c, "Success", 0, <<req>>)
                            /\ srvApps' = SrvDelete(srvApps, app_id, code)
                            /\ localStore' =
                                  DeleteApplicationConfig(localStore, app_id)

\* `afctl applications show`: load_application_config(app_id) raises
\* ApplicationNotFoundError when nothing is cached under app_id
ShowApplication(app_id, reveal_secret) ==
    LET c == [name |-> "applications show", app_id |-> app_id,
              reveal_secret |-> reveal_secret]
    IN
    /\ AtPrompt
    /\ ToolsObsReset
    /\ AppsObsReset
    /\ disconnectRun' = NoRun
    /\ UNCHANGED <<authenticated, localStore, srvVars>>
    /\ IF LoadApplicationConfig(localStore, app_id) = NoRecord
       THEN Finished(c, "NotFoundLocally", 1, << >>)
       ELSE Finished(c, "Success", 0, << >>)

\* `afctl applications test`: get_application_client(app_id) loads the
\* cached record and exchanges its credentials for a token; authOK is
\* whether the service accepts them
TestApplication(app_id, authOK) ==
    LET c == [name |-> "applications test", app_id |-> app_id]
        req == AppReq("token", app_id, None)
    IN
    /\ AtPrompt
    /\ ToolsObsReset
    /\ AppsObsReset
    /\ disconnectRun' = NoRun
    /\ UNCHANGED <<authenticated, localStore, srvVars>>
    /\ IF LoadApplicationConfig(localStore, app_id) = NoRecord
       THEN Finished(c, "NotFoundLocally", 1, << >>)
       ELSE IF ~authOK
       THEN Finished(c, "AuthenticationError", 1, <<req>>)
       ELSE Finished(c, "Success", 0, <<req>>)

(***************************************************************************)
(* The environment of the applications commands                            *)
(***************************************************************************)
\* afctl auth login / logout, or the session expiring
SessionChanges ==
    /\ authenticated' = ~authenticated
    /\ EnvStep
    /\ UNCHANGED <<localStore, srvVars>>

\* the application is deleted from elsewhere (the dashboard)
DeletedElsewhere(app_id) ==
    /\ app_id \in srvApps
    /\ srvApps' = srvApps \ {app_id}
    /\ EnvStep
    /\ UNCHANGED <<authenticated, localStore, srvTokens, srvConns>>

\* the application is activated from another workstation
ActivatedElsewhere(app_id) ==
    /\ app_id \notin srvApps
    /\ srvApps' = srvApps \cup {app_id}
    /\ EnvStep
    /\ UNCHANGED <<authenticated, localStore, srvTokens, srvConns>>

\* the hour of an activation token passes
TokenExpires(token) ==
    /\ srvTokens[token].st = "valid"
    /\ srvTokens' = [srvTokens EXCEPT ![token].st = "expired"]
    /\ EnvStep
    /\ UNCHANGED <<authenticated, localStore, srvApps, srvConns>>

\* another operator registers an application and the token comes this way
OtherOperatorRegisters(token) ==
    /\ srvTokens[token].st = "unissued"
    /\ srvTokens' = [srvTokens EXCEPT ![token] =
          [st |-> "valid", app_id |-> "A", owner |-> "other",
           tool_connections |-> << >>]]
    /\ EnvStep
    /\ UNCHANGED <<authenticated, localStore, srvApps, srvConns>>

\* the service forgets a token that can no longer be exchanged
TokenPurged(token) ==
    /\ srvTokens[token].st \in {"used", "expired"}
    /\ srvTokens' = [srvTokens EXCEPT ![token] = NoToken]
    /\ EnvStep
    /\ UNCHANGED <<authenticated, localStore, srvApps, srvConns>>

RegisterCmd ==
    /\ AtPrompt
    /\ \E app_id \in AppIds, wellFormed \in BOOLEAN,
          tool_connections \in ToolConnectionInputs,
          code \in {-1, 201, 500}, token \in Tokens :
           RegisterApplication(app_id, wellFormed, tool_connections, code, token)

ActivateCmd ==
    /\ AtPrompt
    /\ \E app_id \in AppIds, token \in Tokens :
           \E code \in {-1, 500}
                       \cup SrvActivateStatuses(srvTokens, srvApps, token) :
               ConnectApplication(app_id, token, code)

ListCmd ==
    /\ AtPrompt
    /\ \E sync \in BOOLEAN, code \in {-1, 200, 401, 500},
          badBody \in BOOLEAN, hasField \in BOOLEAN :
           ListApplications(sync, code, badBody, hasField)

DeleteCmd ==
    /\ AtPrompt
    /\ \E app_id \in AppIds, yes \in BOOLEAN, confirm \in BOOLEAN :
           \E code \in {-1, 500, SrvDeleteStatus(srvApps, app_id)} :
               DeleteApplication(app_id, yes, confirm, code)

ShowCmd ==
    /\ AtPrompt
    /\ \E app_id \in AppIds, reveal_secret \in BOOLEAN :
           ShowApplication(app_id, reveal_secret)

TestCmd ==
    /\ AtPrompt
    /\ \E app_id \in AppIds, authOK \in BOOLEAN :
           TestApplication(app_id, authOK)

DeletedEnv == \E app_id \in AppIds : DeletedElsewhere(app_id)

ActivatedEnv == \E app_id \in AppIds : ActivatedElsewhere(app_id)

ExpiresEnv == \E token \in Tokens : TokenExpires(token)

OtherRegistersEnv == \E token \in Tokens : OtherOperatorRegisters(token)

PurgedEnv == \E token \in Tokens : TokenPurged(token)

NextApps ==
    \/ Prompt
    \/ RegisterCmd
    \/ ActivateCmd
    \/ ListCmd
    \/ DeleteCmd
    \/ ShowCmd
    \/ TestCmd
    \/ SessionChanges
    \/ DeletedEnv
    \/ ActivatedEnv
    \/ ExpiresEnv
    \/ OtherRegistersEnv
    \/ PurgedEnv

\* the applications commands, run one after another against the service
SpecApps == Init /\ [][NextApps]_vars


\* a record as connect_application caches it
CachedRecord(app_id) ==
    AppConfig([app_id |-> app_id, secret_key |-> "sk-live",
               user_id |-> "me", tenant_id |-> "tenant",
               tool_connections |-> [c1 |-> <<"slack:read">>],
               created_at |-> "2025-01-01T00:00:00"], gateway_url)

\* the application ids cached when the tools commands are run
CachedInputs == {{}, {"A"}, {"A", "B", "C"}}

\* the workstation after some activations: records in the local store
InitCached ==
    /\ authenticated = TRUE
    /\ \E cached \in CachedInputs :
           /\ localStore = [a \in AppIds |->
                               IF a \in cached THEN CachedRecord(a)
                               ELSE NoRecord]
           /\ srvApps = cached
    /\ srvTokens = [t \in Tokens |-> NoToken]
    /\ srvConns = [c \in ConnIds |-> IF c = OtherId THEN OtherConn ELSE NoConn]
    /\ pc = "idle"
    /\ cmd = NoCmd
    /\ outcome = "none"
    /\ exitCode = -1
    /\ sent = << >>
    /\ polls = 0
    /\ pollError = FALSE
    /\ timedOut = None
    /\ browserOpens = 0
    /\ sawConnectedAt = 0
    /\ status = 0
    /\ respData = NoData
    /\ returned = << >>
    /\ orphaned = << >>
    /\ warned = FALSE
    /\ disconnectRun = NoRun

\* another gateway the workstation was once configured for
OtherGateway == "https://other-gateway"

\* records connect_application cached in another session: against another
\* gateway, or as another operator of this gateway
ForeignRecords(app_id) ==
    {AppConfig([app_id |-> app_id, secret_key |-> "sk-live",
                user_id |-> user, tenant_id |-> "tenant",
                tool_connections |-> [c1 |-> <<"slack:read">>],
                created_at |-> "2025-01-01T00:00:00"], gateway) :
        <<user, gateway>> \in {<<"me", OtherGateway>>, <<"other", gateway_url>>}}

\* the workstation after an activation made in another session: its
\* record is in the local store, and the application is not among those
\* the service lists for this session
InitForeign ==
    /\ authenticated \in BOOLEAN
    /\ \E a \in {"B", "C"} : \E rec \in ForeignRecords(a) :
           localStore = [b \in AppIds |-> IF b = a THEN rec ELSE NoRecord]
    /\ srvApps = {}
    /\ srvTokens = [t \in Tokens |-> NoToken]
    /\ srvConns = [c \in ConnIds |-> IF c = OtherId THEN OtherConn ELSE NoConn]
    /\ pc = "idle"
    /\ cmd = NoCmd
    /\ outcome = "none"
    /\ exitCode = -1
    /\ sent = << >>
    /\ polls = 0
    /\ pollError = FALSE
    /\ timedOut = None
    /\ browserOpens = 0
    /\ sawConnectedAt = 0
    /\ status = 0
    /\ respData = NoData
    /\ returned = << >>
    /\ orphaned = << >>
    /\ warned = FALSE
    /\ disconnectRun = NoRun

\* the applications commands, run over the record of another session
SpecAppsForeign == InitForeign /\ [][NextApps]_vars

\* the tools commands, run on a workstation that has cached applications
SpecToolsCached == InitCached /\ [][NextTools]_vars

\* the store with the records of the cached application ids
CachedStore(cached) ==
    [a \in AppIds |-> IF a \in cached THEN CachedRecord(a) ELSE NoRecord]

\* the application ids cached between two pieces of work
WorkCachedInputs == {{}, {"A"}}

\* no work on applications is under way: no token is out, and what is
\* cached is what the service has
AppsAtRest ==
    /\ srvTokens = [t \in Tokens |-> NoToken]
    /\ \E cached \in WorkCachedInputs :
           localStore = CachedStore(cached) /\ srvApps = cached

\* no work on connections is under way: the operator has only the other
\* connection, and no handshake is waiting
ToolsAtRest ==
    /\ srvConns = [c \in ConnIds |-> IF c = OtherId THEN OtherConn ELSE NoConn]
    /\ pc # "polling"

\* the workstation before a piece of work: logged in or not, with some
\* applications cached
InitWork ==
    /\ authenticated \in BOOLEAN
    /\ AppsAtRest
    /\ pc = "idle"
    /\ ToolsAtRest
    /\ cmd = NoCmd
    /\ outcome = "none"
    /\ exitCode = -1
    /\ sent = << >>
    /\ polls = 0
    /\ pollError = FALSE
    /\ timedOut = None
    /\ browserOpens = 0
    /\ sawConnectedAt = 0
    /\ status = 0
    /\ respData = NoData
    /\ returned = << >>
    /\ orphaned = << >>
    /\ warned = FALSE
    /\ disconnectRun = NoRun

\* the operator works on connections or on applications, one piece of
\* work at a time
NextWork ==
    \/ AppsAtRest /\ NextTools
    \/ ToolsAtRest /\ NextApps

\* every command of both families, over a workstation with cached
\* applications
SpecWork == InitWork /\ [][NextWork]_vars

\* the poll loop sleeps one second and polls again: it is never held up
SpecToolsFair == SpecTools /\ WF_vars(PollStep)

(***************************************************************************)
(* The claims                                                              *)
(***************************************************************************)
RequestsOf(kind) == {i \in 1..Len(sent) : sent[i].kind = kind}

\* C1: in the poll loop of connect, when the listing shows the target
\* connection connected for the first time on attempt k (1 <= k <= 120),
\* the handshake reports success after exactly k poll requests and sends
\* no poll afterwards; and it reports success on no other ground.
C1_FirstSuccessWins ==
    /\ sawConnectedAt # 0 =>
          /\ pc = "done"
          /\ outcome = "Connected"
          /\ exitCode = 0
          /\ polls = sawConnectedAt
    /\ outcome = "Connected" =>
          /\ sawConnectedAt = polls
          /\ polls \in 1..120

C1_Witness ==
    /\ cmd.name = "tools connect"
    /\ outcome = "Connected"
    /\ polls = 6
    /\ sawConnectedAt = 6

\* C2: when no poll of connect shows the target connected, the handshake
\* sends exactly 120 poll requests, then stops with AuthorizationTimeout
\* and exit code 1; there is never a 121st poll, and a handshake that is
\* polling always comes to an end.
C2_TimeoutAfter120 ==
    /\ [](/\ polls <= 120
          /\ pc = "polling" => polls < 120
          /\ outcome = "AuthorizationTimeout" =>
                /\ pc = "done"
                /\ exitCode = 1
                /\ polls = 120
                /\ sawConnectedAt = 0
          /\ (/\ pc = "done"
              /\ cmd.name = "tools connect"
              /\ polls = 120
              /\ sawConnectedAt = 0
              /\ outcome # "RequestFailed") => outcome = "AuthorizationTimeout")
    /\ (pc = "polling") ~> (pc = "done")

C2_Witness ==
    /\ cmd.name = "tools connect"
    /\ outcome = "AuthorizationTimeout"
    /\ exitCode = 1
    /\ polls = 120


LocalIds(store) == {a \in AppIds : store[a] # NoRecord}

Range(seq) == {seq[k] : k \in 1..Len(seq)}

\* a step that is the whole run of the named command
Runs(name) == pc = "idle" /\ pc' = "done" /\ cmd'.name = name

\* C3: when `applications list` syncs and the fetch succeeds (status 200,
\* readable body), the local records deleted are exactly those whose
\* app_id is not among the ids of the response, the list returned is
\* exactly the local records whose app_id is among them, and every record
\* that remains has its id among them.
C3_ReconcileExact ==
    [][(Runs("applications list") /\ status' = 200 /\ respData'.readable) =>
          LET localIds == LocalIds(localStore)
              serverIds == {respData'.applications[k].app_id :
                               k \in 1..Len(respData'.applications)}
          IN /\ localIds \ LocalIds(localStore') = localIds \ serverIds
             /\ Range(orphaned') = localIds \ serverIds
             /\ Range(returned') = localIds \cap serverIds
             /\ Len(returned') = Cardinality(localIds \cap serverIds)
             /\ LocalIds(localStore') = localIds \cap serverIds
             /\ \A a \in localIds \cap serverIds :
                   localStore'[a] = localStore[a]]_vars

\* local {A, B, C}, server {A, C}: B is deleted and {A, C} returned
C3_Witness ==
    /\ cmd.name = "applications list"
    /\ status = 200
    /\ respData.readable /\ respData.hasField
    /\ orphaned = <<"B">>
    /\ returned = <<"A", "C">>
    /\ LocalIds(localStore) = {"A", "C"}

\* C4: when the fetch of `applications list` fails (the transport fails,
\* the status is not 200, or the body cannot be read), no local record is
\* deleted: the store is as before and the full local list is returned.
C4_FailedFetchKeepsStore ==
    [][(/\ Runs("applications list")
        /\ status' # 0
        /\ (status' # 200 \/ ~respData'.readable)) =>
          /\ localStore' = localStore
          /\ orphaned' = << >>
          /\ Range(returned') = LocalIds(localStore)
          /\ Len(returned') = Cardinality(LocalIds(localStore))]_vars

\* a failed fetch with an orphan (B) in the store
C4_Witness ==
    /\ cmd.name = "applications list"
    /\ status = 500
    /\ returned = <<"A", "B", "C">>
    /\ LocalIds(localStore) = {"A", "B", "C"}
    /\ "B" \notin srvApps

\* C5: `applications connect` turns a 404 into TokenInvalidOrExpired and a
\* 403 into TokenOwnershipMismatch, each with exit code 1; a successful
\* activation leaves the token used, and activating a used token again,
\* the service answering, yields TokenInvalidOrExpired.
C5_ActivateFailures ==
    [][Runs("applications connect") =>
          /\ status' = 404 =>
                outcome' = "TokenInvalidOrExpired" /\ exitCode' = 1
          /\ status' = 403 =>
                outcome' = "TokenOwnershipMismatch" /\ exitCode' = 1
          /\ outcome' = "Success" =>
                /\ status' = 201
                /\ exitCode' = 0
                /\ srvTokens[cmd'.token].st = "valid"
                /\ srvTokens'[cmd'.token].st = "used"
          /\ (srvTokens[cmd'.token].st = "used"
              /\ status' \notin {0, -1, 500}) =>
                outcome' = "TokenInvalidOrExpired" /\ exitCode' = 1]_vars

\* the second activation of a token
C5_Witness ==
    /\ cmd.name = "applications connect"
    /\ srvTokens[cmd.token].st = "used"
    /\ srvTokens[cmd.token].owner = "me"
    /\ status = 404
    /\ outcome = "TokenInvalidOrExpired"

\* C10: when activate answers 201, `applications connect` writes exactly
\* one record to the local store, under the app_id of the response, with
\* app_id, secret_key, user_id, tenant_id, tool_connections and created_at
\* as the service returned them, and the gateway URL.
C10_ActivationPersisted ==
    [][(Runs("applications connect") /\ status' = 201) =>
          /\ localStore'[respData'.app_id] =
                [app_id |-> respData'.app_id,
                 secret_key |-> respData'.secret_key,
                 user_id |-> respData'.user_id,
                 tenant_id |-> respData'.tenant_id,
                 tool_connections |-> respData'.tool_connections,
                 created_at |-> respData'.created_at,
                 gateway_url |-> gateway_url]
          /\ respData'.secret_key # None
          /\ \A a \in AppIds \ {respData'.app_id} :
                localStore'[a] = localStore[a]]_vars

C10_Witness ==
    /\ cmd.name = "applications connect"
    /\ status = 201
    /\ outcome = "Success"
    /\ localStore[respData.app_id].secret_key = respData.secret_key
    /\ localStore[respData.app_id].tool_connections # << >>
    /\ \E a \in AppIds \ {respData.app_id} : localStore[a] # NoRecord


\* the Google family as the claims name it
GoogleFamily(tool) == StartsWith(tool, S_google_) \/ tool = S_gmail

\* the oauth3 allow-list as the claims name it
OnAllowList(tool) ==
    GoogleFamily(tool) \/ tool = S_slack \/ tool = S_notion

NamespacesOf(reqs) == {reqs[i].ns : i \in 1..Len(reqs)} \ {EmptyStr}

\* C6: for a tool of the Google family, every request of add, connect and
\* disconnect whose path has a namespace segment targets the umbrella
\* namespace (google, or its OAuth variant) and never the tool's own name,
\* the token path of add included.
C6_UmbrellaNamespace ==
    (cmd.name \in {"tools add", "tools connect", "tools disconnect"}
     /\ GoogleFamily(cmd.tool)) =>
        /\ NamespacesOf(sent) \subseteq {S_google, S_google_oauth}
        /\ cmd.tool \notin NamespacesOf(sent)

\* C7 as stated: add with oauth3 on a tool outside the allow-list fails
\* with UnsupportedMethod and sends nothing.
C7_Original ==
    (cmd.name = "tools add" /\ pc = "done" /\ cmd.method = "oauth3"
     /\ ~OnAllowList(cmd.tool)) =>
        /\ outcome = "UnsupportedMethod"
        /\ exitCode = 1
        /\ sent = << >>

\* C7, amended: add with oauth3 on a tool outside the allow-list fails
\* before any request is sent, with UnsupportedMethod unless the tool is
\* the bare family name google (in any case), which is rejected first,
\* with AmbiguousTool.
C7_Oauth3RejectedUnsent ==
    (cmd.name = "tools add" /\ pc = "done" /\ cmd.method = "oauth3"
     /\ ~OnAllowList(cmd.tool)) =>
        /\ outcome = IF Lower(cmd.tool) = S_google THEN "AmbiguousTool"
                     ELSE "UnsupportedMethod"
        /\ exitCode = 1
        /\ sent = << >>

C7_Witness ==
    /\ cmd.name = "tools add"
    /\ cmd.method = "oauth3"
    /\ cmd.tool = S_github
    /\ outcome = "UnsupportedMethod"
    /\ sent = << >>

\* an add with neither a token nor a complete (id, secret) pair
LacksCredentials(c) ==
    /\ c.token \in {None, ""}
    /\ c.client_id \in {None, ""} \/ c.client_secret \in {None, ""}

\* C8 as stated: add with api_credentials and neither a token nor a
\* complete pair fails with MissingCredentialInput and sends nothing.
C8_Original ==
    (cmd.name = "tools add" /\ pc = "done"
     /\ cmd.method = "api_credentials") =>
        /\ LacksCredentials(cmd) =>
              /\ outcome = "MissingCredentialInput"
              /\ exitCode = 1
              /\ sent = << >>
        /\ sent # << >> => ~LacksCredentials(cmd)

\* C8, amended: add with api_credentials sends a request only when a
\* token or both client_id and client_secret are supplied; with neither
\* it fails before any request is sent, with MissingCredentialInput
\* unless the tool is the bare family name google (in any case), which is
\* rejected first, with AmbiguousTool.
C8_CredentialsRequired ==
    (cmd.name = "tools add" /\ pc = "done"
     /\ cmd.method = "api_credentials") =>
        /\ LacksCredentials(cmd) =>
              /\ outcome = IF Lower(cmd.tool) = S_google THEN "AmbiguousTool"
                           ELSE "MissingCredentialInput"
              /\ exitCode = 1
              /\ sent = << >>
        /\ sent # << >> => ~LacksCredentials(cmd)

\* only one of client_id and client_secret, and no token
C8_Witness ==
    /\ cmd.name = "tools add"
    /\ cmd.method = "api_credentials"
    /\ cmd.token = None
    /\ cmd.client_id = "id"
    /\ cmd.client_secret = None
    /\ outcome = "MissingCredentialInput"
    /\ sent = << >>

\* C9: of two disconnects run in a row on a connected connection, the
\* first succeeds and the second ends with exit code 1 without sending a
\* credential-delete request; its listing answered, it reports
\* AlreadyDisconnected.
C9_DisconnectTwice ==
    Len(disconnectRun.outcomes) = 2 =>
        /\ disconnectRun.outcomes[1] = "Success"
        /\ cmd.name = "tools disconnect"
        /\ cmd.connection_id = disconnectRun.connection_id
        /\ outcome = disconnectRun.outcomes[2]
        /\ exitCode = 1
        /\ RequestsOf("delete_credentials") = {}
        /\ sent = <<ListReq>>
        /\ outcome # "RequestFailed" => outcome = "AlreadyDisconnected"

C9_Witness ==
    /\ disconnectRun.outcomes = <<"Success", "AlreadyDisconnected">>
    /\ cmd.name = "tools disconnect"
    /\ srvConns[cmd.connection_id].exists
    /\ ~srvConns[cmd.connection_id].connected


\* C11: whenever applications delete ends successfully, the app id is in
\* neither the service's application set nor the local store, and the
\* local record is removed only in a run that has sent the delete request
\* and has had its answer.
C11_DeletedBothSides ==
    [][Runs("applications delete") =>
          /\ outcome' = "Success" =>
                /\ cmd'.app_id \notin srvApps'
                /\ localStore'[cmd'.app_id] = NoRecord
          /\ localStore' # localStore =>
                /\ sent' = <<AppReq("delete", cmd'.app_id, None)>>
                /\ status' \in {204, 404}]_vars

\* a cached application the service knows is deleted on both sides
C11_Witness ==
    /\ cmd.name = "applications delete"
    /\ outcome = "Success"
    /\ status = 204
    /\ localStore[cmd.app_id] = NoRecord
    /\ cmd.app_id \notin srvApps

\* C12: applications delete removes the local record exactly when the
\* service answered its delete request with 204 or 404: a 404 brings a
\* warning and the command still succeeds; any other status, or a
\* transport error, is a failure that leaves the local store as it was.
C12_LocalRemovedIff204Or404 ==
    [][Runs("applications delete") =>
          IF sent' # << >> /\ status' \in {204, 404}
          THEN /\ outcome' = "Success"
               /\ exitCode' = 0
               /\ warned' = (status' = 404)
               /\ localStore' =
                     [localStore EXCEPT ![cmd'.app_id] = NoRecord]
          ELSE /\ localStore' = localStore
               /\ sent' # << >> => exitCode' = 1 /\ outcome' # "Success"]_vars

\* the service no longer knows the application: its cached record goes
C12_Witness ==
    /\ cmd.name = "applications delete"
    /\ status = 404
    /\ warned
    /\ outcome = "Success"
    /\ localStore[cmd.app_id] = NoRecord

\* C13: applications list sends its request only when sync is on and the
\* operator is authenticated; run unauthenticated it sends nothing,
\* deletes no local record and returns the full local list.
C13_ListNeedsSession ==
    [][Runs("applications list") =>
          /\ sent' # << >> => authenticated /\ cmd'.sync
          /\ ~authenticated =>
                /\ sent' = << >>
                /\ status' = 0
                /\ localStore' = localStore
                /\ orphaned' = << >>
                /\ returned' = AppIdsOf(ListLocalApps(localStore))]_vars

\* a list with sync on, after the session has gone, over a cached record
\* the service no longer has
C13_Witness ==
    /\ cmd.name = "applications list"
    /\ cmd.sync
    /\ ~authenticated
    /\ sent = << >>
    /\ returned # << >>
    /\ \E a \in AppIds : localStore[a] # NoRecord /\ a \notin srvApps

\* C14: a run of applications list only ever removes local records: each
\* record of the store afterwards is the record that was there before,
\* the returned list names only applications that were cached before, and
\* an application only the service has gets no local record.
C14_PullOnlyCleanup ==
    [][Runs("applications list") =>
          /\ \A a \in AppIds : localStore'[a] \in {localStore[a], NoRecord}
          /\ Range(returned') \subseteq LocalIds(localStore)
          /\ LocalIds(localStore') \subseteq LocalIds(localStore)]_vars

\* a successful fetch that lists an application not cached locally, and
\* cleans up an orphan
C14_Witness ==
    /\ cmd.name = "applications list"
    /\ status = 200
    /\ respData.readable
    /\ orphaned # << >>
    /\ \E k \in 1..Len(respData.applications) :
           LET a == respData.applications[k].app_id
           IN localStore[a] = NoRecord /\ a \notin Range(returned)

\* C15: whenever the fetch of applications list fails, by a transport
\* error or by a status other than 200, the operator is shown a warning.
C15_FailedFetchWarns ==
    (cmd.name = "applications list" /\ pc = "done" /\ sent # << >>
     /\ status # 200) => warned

\* C16: tools add with the bare family name google (in any letter case)
\* as the tool ends with AmbiguousTool, whatever the method and the
\* credentials given, and sends no request.
C16_BareGoogleRejected ==
    (cmd.name = "tools add" /\ pc = "done"
     /\ Lower(cmd.tool) = S_google) =>
        /\ outcome = "AmbiguousTool"
        /\ exitCode = 1
        /\ sent = << >>

\* add google with a valid method and a token
C16_Witness ==
    /\ cmd.name = "tools add"
    /\ cmd.tool = S_google
    /\ cmd.method = "api_credentials"
    /\ cmd.token = "tok"
    /\ outcome = "AmbiguousTool"
    /\ sent = << >>

\* a step in which the named command starts
Starts(name) == pc = "idle" /\ pc' # "idle" /\ cmd'.name = name

\* C17: tools connect on a connection the service lists as connected
\* sends the initiate request only if --yes was passed or the operator
\* confirmed; when the operator declines, the run ends at once, having
\* sent no initiate request, opened no browser and polled nothing.
C17_ReconnectNeedsConfirmation ==
    [][(Starts("tools connect")
        /\ srvConns[cmd'.connection_id].exists
        /\ srvConns[cmd'.connection_id].connected) =>
          /\ RequestsOf("initiate")' # {} =>
                cmd'.yes \/ cmd'.answer = "yes"
          /\ (~cmd'.yes /\ cmd'.answer = "no") =>
                /\ pc' = "done"
                /\ outcome' = "Skipped"
                /\ exitCode' = 0
                /\ sent' = <<ListReq>>
                /\ browserOpens' = 0
                /\ polls' = 0]_vars

\* the operator declines to reconnect a connected connection
C17_Witness ==
    /\ cmd.name = "tools connect"
    /\ ~cmd.yes
    /\ cmd.answer = "no"
    /\ outcome = "Skipped"
    /\ srvConns[cmd.connection_id].connected
    /\ browserOpens = 0
    /\ polls = 0

\* C18: when the answer to connect's initiate request carries no value,
\* or only empty ones, under authorization_url, auth_url and oauth_url,
\* the run ends with NoAuthorizationUrl and exit code 1, the browser is
\* not opened and no poll is sent.
C18_NoAuthorizationUrl ==
    (cmd.name = "tools connect" /\ cmd.result # NoResult
     /\ cmd.result.authorization_url \in {None, ""}
     /\ cmd.result.auth_url \in {None, ""}
     /\ cmd.result.oauth_url \in {None, ""}) =>
        /\ pc = "done"
        /\ outcome = "NoAuthorizationUrl"
        /\ exitCode = 1
        /\ browserOpens = 0
        /\ polls = 0
        /\ sawConnectedAt = 0

\* an answer whose three fields are all empty strings
C18_Witness ==
    /\ cmd.name = "tools connect"
    /\ cmd.result = [authorization_url |-> "", auth_url |-> "",
                     oauth_url |-> ""]
    /\ RequestsOf("initiate") # {}
    /\ outcome = "NoAuthorizationUrl"
    /\ browserOpens = 0

\* C19: in a run of tools connect the browser has been opened once if the
\* run has reached the poll loop and not at all otherwise; it is opened
\* only on an initiate answer that carries an authorization URL, before
\* the first poll, and polling never opens it again.
C19_BrowserOpenedOnce ==
    /\ browserOpens \in {0, 1}
    /\ cmd.name # "tools connect" => browserOpens = 0
    /\ cmd.name = "tools connect" =>
          /\ browserOpens = IF pc = "polling" \/ polls > 0 THEN 1 ELSE 0
          /\ browserOpens = 1 =>
                /\ RequestsOf("initiate") # {}
                /\ cmd.result # NoResult
                /\ \/ cmd.result.authorization_url \notin {None, ""}
                   \/ cmd.result.auth_url \notin {None, ""}
                   \/ cmd.result.oauth_url \notin {None, ""}

\* a handshake that timed out after its 120 polls opened the browser once
C19_Witness ==
    /\ cmd.name = "tools connect"
    /\ outcome = "AuthorizationTimeout"
    /\ polls = max_attempts
    /\ browserOpens = 1

\* C20: no step of tools connect, tools disconnect or tools remove changes
\* the local application store, whatever the outcome.
C20_ToolsLeaveLocalStore ==
    [][cmd'.name \in {"tools connect", "tools disconnect", "tools remove"}
          => localStore' = localStore]_vars

\* a disconnect has succeeded, the connection is no longer connected on
\* the service, and the three cached records are still there
C20_Witness ==
    /\ cmd.name = "tools disconnect"
    /\ outcome = "Success"
    /\ ~srvConns[cmd.connection_id].connected
    /\ \A a \in AppIds : localStore[a] = CachedRecord(a)

\* C21: within one command nothing but the status check is sent twice:
\* no two of its requests are the same, a tools connect sends at most one
\* initiate request (exactly one when it has timed out), and applications
\* register, connect and delete send at most one request each.
C21_NoRetries ==
    /\ \A i, j \in 1..Len(sent) : i # j => sent[i] # sent[j]
    /\ cmd.name = "tools connect" =>
          /\ Cardinality(RequestsOf("initiate")) <= 1
          /\ outcome = "AuthorizationTimeout" =>
                Cardinality(RequestsOf("initiate")) = 1
    /\ cmd.name \in {"applications register", "applications connect",
                     "applications delete"} => Len(sent) <= 1

\* a handshake that timed out after 120 status checks initiated once
C21_Witness ==
    /\ cmd.name = "tools connect"
    /\ outcome = "AuthorizationTimeout"
    /\ polls = max_attempts
    /\ Cardinality(RequestsOf("initiate")) = 1

\* C22: run without a session, applications register, connect and delete
\* each end with Unauthenticated and exit code 1, having sent no request
\* and left the local store and the service as they were.
C22_UnauthenticatedStopsFirst ==
    [][(\/ Runs("applications register")
        \/ Runs("applications connect")
        \/ Runs("applications delete")) /\ ~authenticated =>
          /\ outcome' = "Unauthenticated"
          /\ exitCode' = 1
          /\ sent' = << >>
          /\ status' = 0
          /\ localStore' = localStore
          /\ srvApps' = srvApps
          /\ srvTokens' = srvTokens]_vars

\* a delete of a cached application, after the session has gone
C22_Witness ==
    /\ cmd.name = "applications delete"
    /\ ~authenticated
    /\ outcome = "Unauthenticated"
    /\ sent = << >>
    /\ localStore[cmd.app_id] # NoRecord

\* the initiate request of the connect that is running or has run
InitiateSent == sent[CHOOSE i \in RequestsOf("initiate") : TRUE]

\* C23 as stated: only the Google family has a namespace that depends on
\* the method; for a tool of any other family connect targets under
\* oauth3 the namespace it targets under api_credentials.
C23_Original ==
    (cmd.name = "tools connect" /\ RequestsOf("initiate") # {}) =>
        IF GoogleFamily(cmd.tool)
        THEN InitiateSent.ns = IF cmd.method = "oauth3"
                               THEN S_google \o S_oauth_suffix
                               ELSE S_google
        ELSE InitiateSent.ns = ConnectApiToolName(cmd.tool, "api_credentials")

\* C23, amended: two families have a namespace that depends on the method
\* in tools connect, the Google family and Notion: under oauth3 connect
\* targets google_oauth, respectively notion_oauth, and under any other
\* method google, respectively notion; for every other tool it targets the
\* tool's own identifier under every method.
C23_TwoFamiliesSplit ==
    (cmd.name = "tools connect" /\ RequestsOf("initiate") # {}) =>
        InitiateSent.ns =
            IF GoogleFamily(cmd.tool)
            THEN (IF cmd.method = "oauth3" THEN S_google \o S_oauth_suffix
                  ELSE S_google)
            ELSE IF cmd.tool = S_notion
            THEN (IF cmd.method = "oauth3" THEN S_notion \o S_oauth_suffix
                  ELSE S_notion)
            ELSE cmd.tool

\* a connect on a Notion connection added with oauth3
C23_Witness ==
    /\ cmd.name = "tools connect"
    /\ cmd.tool = S_notion
    /\ cmd.method = "oauth3"
    /\ RequestsOf("initiate") # {}
    /\ InitiateSent.ns = S_notion \o S_oauth_suffix

\* C24: the initiate request of tools connect always names the
\* connection id; it carries the tool as tool_type exactly when the tool
\* is of the Google family, and the method exactly when the connection's
\* method is oauth3.
C24_InitiateParameters ==
    (cmd.name = "tools connect" /\ RequestsOf("initiate") # {}) =>
        /\ InitiateSent.connection_id = cmd.connection_id
        /\ InitiateSent.tool_type =
              IF GoogleFamily(cmd.tool) THEN cmd.tool ELSE EmptyStr
        /\ InitiateSent.method =
              IF cmd.method = "oauth3" THEN "oauth3" ELSE None

\* a connect on a Slack connection added with oauth3: the method is
\* carried, the tool is not
C24_Witness ==
    /\ cmd.name = "tools connect"
    /\ cmd.tool = S_slack
    /\ cmd.method = "oauth3"
    /\ RequestsOf("initiate") # {}
    /\ InitiateSent.tool_type = EmptyStr
    /\ InitiateSent.method = "oauth3"
    /\ InitiateSent.connection_id = "c1"

\* the requests of the kinds that change a connection
ChangingRequests(reqs) ==
    {i \in 1..Len(reqs) :
        reqs[i].kind \in {"initiate", "delete_credentials", "delete_entry"}}

\* C25: tools remove on a connection that exists, whatever its state,
\* succeeds once the operator has passed --force or confirmed and the
\* service has answered, by one delete-entry request; afterwards the
\* connection is not listed. A connect, disconnect or remove on a
\* connection id that is not listed ends with NotFound and sends no
\* initiate or delete request.
C25_RemoveFromAnyState ==
    [][/\ (Runs("tools remove") /\ srvConns[cmd'.connection_id].exists) =>
             /\ outcome' \in {"Success", "Cancelled", "RequestFailed"}
             /\ (cmd'.force \/ cmd'.confirm) /\ outcome' # "RequestFailed"
                   => outcome' = "Success"
             /\ outcome' = "Success" =>
                   /\ exitCode' = 0
                   /\ Len(sent') = 2
                   /\ sent'[2].kind = "delete_entry"
                   /\ sent'[2].connection_id = cmd'.connection_id
                   /\ ~srvConns'[cmd'.connection_id].exists
                   /\ FindConnection(Listing(srvConns'), cmd'.connection_id)
                        = NoConn
       /\ \A name \in {"tools connect", "tools disconnect", "tools remove"} :
             (Starts(name) /\ ~srvConns[cmd'.connection_id].exists) =>
                /\ pc' = "done"
                /\ exitCode' = 1
                /\ outcome' \in {"NotFound", "RequestFailed"}
                /\ sent' = <<ListReq>>
                /\ ChangingRequests(sent') = {}
                /\ srvConns' = srvConns]_vars

\* a confirmed remove has succeeded: the connection is no longer listed
C25_Witness ==
    /\ cmd.name = "tools remove"
    /\ ~cmd.force /\ cmd.confirm
    /\ outcome = "Success"
    /\ Len(sent) = 2
    /\ sent[2].kind = "delete_entry"
    /\ ~srvConns[cmd.connection_id].exists

\* C26: a tools disconnect that succeeds has sent exactly one
\* credential-delete request and no delete-entry request; the connection
\* is then still listed, not connected, and a connect on a connection in
\* that state is neither refused as not found nor skipped: with the
\* listing and an authorization URL answered it goes on to wait for the
\* authorization.
C26_DisconnectKeepsEntry ==
    [][/\ (Runs("tools disconnect") /\ outcome' = "Success") =>
             /\ Cardinality(RequestsOf("delete_credentials")') = 1
             /\ RequestsOf("delete_entry")' = {}
             /\ srvConns'[cmd'.connection_id].exists
             /\ ~srvConns'[cmd'.connection_id].connected
             /\ \E k \in 1..Len(Listing(srvConns')) :
                   /\ Listing(srvConns')[k].connection_id = cmd'.connection_id
                   /\ ~Listing(srvConns')[k].connected
       /\ (Starts("tools connect") /\ srvConns[cmd'.connection_id].exists
           /\ ~srvConns[cmd'.connection_id].connected) =>
             /\ outcome' \notin {"NotFound", "Skipped"}
             /\ cmd'.answer = "unasked"
             /\ (cmd'.result # NoResult
                 /\ cmd'.result.authorization_url = "url") => pc' = "polling"]_vars

\* a disconnect has succeeded: the entry is there, without credentials
C26_Witness ==
    /\ cmd.name = "tools disconnect"
    /\ outcome = "Success"
    /\ Cardinality(RequestsOf("delete_credentials")) = 1
    /\ srvConns[cmd.connection_id].exists
    /\ ~srvConns[cmd.connection_id].connected

\* C27: a record of the local store disappears only in a successful
\* applications delete of its app id, or in an applications list whose
\* fetch succeeded and did not list it; no other command and no other
\* step removes a local record.
C27_RecordsRemovedOnlyByDeleteOrList ==
    [][\A a \in AppIds :
          (localStore[a] # NoRecord /\ localStore'[a] = NoRecord) =>
             \/ /\ Runs("applications delete")
                /\ cmd'.app_id = a
                /\ outcome' = "Success"
             \/ /\ Runs("applications list")
                /\ status' = 200
                /\ a \in Range(orphaned')
                /\ \A k \in 1..Len(respData'.applications) :
                      respData'.applications[k].app_id # a]_vars

\* a connection has been removed over a store that still holds the
\* record of an application
C27_Witness ==
    /\ cmd.name = "tools remove"
    /\ outcome = "Success"
    /\ localStore["A"] = CachedRecord("A")

\* C28: the activation token is never kept by the client. A run of
\* applications register, whatever its outcome, leaves the local store as
\* it was; the record written by a successful applications connect has
\* exactly the seven fields of the activation response and the gateway,
\* and none of its fields holds the activation token that was passed.
C28_TokenNeverPersisted ==
    [][/\ Runs("applications register") => localStore' = localStore
       /\ (Runs("applications connect") /\ outcome' = "Success") =>
             LET r == localStore'[respData'.app_id]
             IN /\ DOMAIN r = {"app_id", "secret_key", "user_id", "tenant_id",
                               "tool_connections", "created_at",
                               "gateway_url"}
                /\ \A f \in {"app_id", "secret_key", "user_id", "tenant_id",
                              "created_at", "gateway_url"} :
                      r[f] # cmd'.token
                /\ \A a \in AppIds \ {respData'.app_id} :
                      localStore'[a] = localStore[a]]_vars

\* an application has been registered, its token exchanged, and its
\* record saved
C28_Witness ==
    /\ cmd.name = "applications connect"
    /\ outcome = "Success"
    /\ srvTokens[cmd.token].st = "used"
    /\ localStore[respData.app_id] # NoRecord

\* C29: a status poll of tools connect whose request raises ends the
\* handshake in that very step, with the failure surfaced (RequestFailed,
\* exit code 1) and never as a timeout, whatever the number of the attempt;
\* after it no further poll is sent by that run.
C29_PollErrorAborts ==
    [][/\ (pc = "polling" /\ pollError') =>
             /\ polls' = polls + 1
             /\ pc' = "done"
             /\ outcome' = "RequestFailed"
             /\ exitCode' = 1
       /\ pollError => (polls' = polls \/ polls' = 0)]_vars

\* the request of the last of the 120 polls raised: the run failed, it
\* did not time out
C29_Witness ==
    /\ cmd.name = "tools connect"
    /\ pollError
    /\ polls = max_attempts
    /\ outcome = "RequestFailed"

\* C30: tools connect reports Connected only once the authorization that
\* this run initiated has been completed by the user: at the poll that
\* reports it, the authorization of the connection is no longer pending.
\* In particular a run on a connection that was connected when it started
\* does not report Connected on the flag of the earlier authorization.
C30_ConnectedAfterRoundTrip ==
    [][(pc = "polling" /\ outcome' = "Connected") =>
          ~srvConns'[cmd.connection_id].pending]_vars

\* an entry of the service that holds no credentials
Unconfigured(conn) == conn.exists /\ ~conn.configured /\ ~conn.connected

\* C31 as stated: every tools add with the method oauth fails having sent
\* the create request, and leaves an unconfigured entry on the service.
C31_Original ==
    [][(Runs("tools add") /\ cmd'.method = "oauth") =>
          /\ exitCode' = 1
          /\ Len(sent') = 1
          /\ sent'[1].kind = "create_connection"
          /\ Unconfigured(srvConns'[cmd'.connection_id])]_vars

\* C31: tools add with the method oauth always fails. When the tool is the
\* bare name google it fails before any request; otherwise the create
\* request is sent, and it is the only request sent. When the service
\* accepts it the command ends as DeprecatedMethod with the new entry left
\* unconfigured on the service; when it does not, the command ends as
\* RequestFailed and the service is as before.
C31_DeprecatedFailsAfterCreate ==
    [][(Runs("tools add") /\ cmd'.method = "oauth") =>
          /\ exitCode' = 1
          /\ IF IsBareGoogle(cmd'.tool)
             THEN sent' = << >> /\ srvConns' = srvConns
             ELSE /\ sent' = <<CreateReq(cmd'.tool, cmd'.connection_id, "oauth")>>
                  /\ outcome' \in {"DeprecatedMethod", "RequestFailed"}
                  /\ outcome' = "DeprecatedMethod" =>
                        /\ ~srvConns[cmd'.connection_id].exists
                        /\ Unconfigured(srvConns'[cmd'.connection_id])
                        /\ srvConns'[cmd'.connection_id].method = "oauth"
                  /\ outcome' = "RequestFailed" => srvConns' = srvConns]_vars

\* an add with the method oauth has failed and left its entry behind
C31_Witness ==
    /\ cmd.name = "tools add"
    /\ cmd.method = "oauth"
    /\ outcome = "DeprecatedMethod"
    /\ exitCode = 1
    /\ Unconfigured(srvConns[cmd.connection_id])

\* the requests of an add that store credentials
IsStoreReq(req) == req.kind \in {"config", "connection"}

\* C32: tools add sends the create request before the credential request
\* and nothing that undoes it: whatever it sends starts with the create
\* request, a credential request comes second and last, and when that
\* request fails the command fails while the entry the create request made
\* stays on the service, unconfigured.
C32_TwoStepsNoRollback ==
    [][Runs("tools add") =>
          /\ \A i \in 1..Len(sent') :
                /\ sent'[i].kind \in {"create_connection", "config", "connection"}
                /\ IsStoreReq(sent'[i]) =>
                      i = 2 /\ Len(sent') = 2
                      /\ sent'[1] = CreateReq(cmd'.tool, cmd'.connection_id,
                                              cmd'.method)
          /\ (Len(sent') = 2 /\ outcome' # "Success") =>
                /\ exitCode' = 1
                /\ ~srvConns[cmd'.connection_id].exists
                /\ Unconfigured(srvConns'[cmd'.connection_id])
                /\ srvConns'[cmd'.connection_id].tool = cmd'.tool]_vars

\* an add whose credential request failed has left its entry behind
C32_Witness ==
    /\ cmd.name = "tools add"
    /\ cmd.method = "api_credentials"
    /\ Len(sent) = 2
    /\ IsStoreReq(sent[2])
    /\ outcome = "RequestFailed"
    /\ Unconfigured(srvConns[cmd.connection_id])

\* C33: after a successful applications connect the local store holds the
\* new record under the app_id given on the command line: the record of
\* that key is the one just written, and no other key has changed.
C33_RecordKeyedByArgument ==
    [][(Runs("applications connect") /\ outcome' = "Success") =>
          /\ localStore'[cmd'.app_id] = AppConfig(respData', gateway_url)
          /\ localStore'[cmd'.app_id].app_id = cmd'.app_id
          /\ \A a \in AppIds \ {cmd'.app_id} :
                localStore'[a] = localStore[a]]_vars

\* C34: reconciliation deletes local records only on the evidence of an
\* explicit list: an applications list whose fetch is answered with a 200
\* whose body has no applications field leaves the local store as it was.
C34_MissingFieldDeletesNothing ==
    [][(/\ Runs("applications list")
        /\ status' = 200
        /\ respData'.readable
        /\ ~respData'.hasField) => localStore' = localStore]_vars

\* the record was not activated in the session whose list is fetched
OfAnotherSession(record) ==
    record.gateway_url # gateway_url \/ record.user_id # "me"

\* C35: reconciliation purges only records of the current session: an
\* applications list leaves in place every local record that was activated
\* against another gateway or by another operator, whether or not its
\* app_id is in the list fetched.
C35_ForeignRecordsKept ==
    [][\A a \in AppIds :
          (/\ Runs("applications list")
           /\ localStore[a] # NoRecord
           /\ OfAnotherSession(localStore[a])) =>
              localStore'[a] = localStore[a]]_vars

\* C36: tools disconnect deletes the credentials in the namespace that
\* tools connect initiates the authorization in, for the tool and method
\* of the connection: the namespace of its credential-delete request is
\* the namespace of the initiate request of a connect on that connection.
C36_DisconnectNamespaceOfConnect ==
    [][(Runs("tools disconnect") /\ Len(sent') = 2) =>
          LET conn == srvConns[cmd'.connection_id]
          IN sent'[2].ns =
                InitiateReq(conn.tool, conn.method, cmd'.connection_id).ns]_vars

\* C37: an applications connect that does not end in success -- the
\* operator is not authenticated, the transport fails, or the service
\* answers 404, 403 or any other status than 201 -- fails with exit code 1
\* and leaves every record of the local store as it was.
C37_FailedActivationKeepsStore ==
    [][(Runs("applications connect") /\ status' # 201) =>
          /\ outcome' # "Success"
          /\ exitCode' = 1
          /\ localStore' = localStore]_vars

\* a token already exchanged is presented again, over the store that
\* holds the record of its application: the activation is refused
C37_Witness ==
    /\ cmd.name = "applications connect"
    /\ status = 404
    /\ outcome = "TokenInvalidOrExpired"
    /\ srvTokens[cmd.token].st = "used"
    /\ localStore[srvTokens[cmd.token].app_id] # NoRecord

\* C38: the outcome of tools connect and the connected flag of the service
\* can part after a timeout. AuthorizationTimeout is reported at the 120th
\* poll, on a listing that does not show the connection connected, and
\* nothing the command does afterwards follows the authorization; when the
\* operator completes it later, the next tools connect on that connection
\* finds it connected and takes the already-connected branch: unless --yes
\* was passed the operator is asked to confirm, and declining ends the run
\* with nothing but the listing sent.
C38_TimeoutThenConnected ==
    [][/\ (pc = "polling" /\ outcome' = "AuthorizationTimeout") =>
             /\ polls' = max_attempts
             /\ ~ListingReports(Listing(srvConns), cmd.connection_id)
             /\ timedOut' = cmd.connection_id
       /\ (/\ Starts("tools connect")
           /\ timedOut = cmd'.connection_id
           /\ srvConns[cmd'.connection_id].exists
           /\ srvConns[cmd'.connection_id].connected) =>
             \/ outcome' = "RequestFailed" /\ sent' = <<ListReq>>
             \/ cmd'.yes /\ cmd'.answer = "unasked"
             \/ cmd'.answer = "yes"
             \/ /\ cmd'.answer = "no"
                /\ outcome' = "Skipped"
                /\ sent' = <<ListReq>>]_vars

\* the handshake of an oauth3 connection timed out, the operator then
\* completed the authorization, and the next connect asked whether to
\* reconnect (the operator declined)
C38_Witness ==
    /\ cmd.name = "tools connect"
    /\ timedOut = cmd.connection_id
    /\ cmd.method = "oauth3"
    /\ srvConns[cmd.connection_id].exists
    /\ srvConns[cmd.connection_id].connected
    /\ ~srvConns[cmd.connection_id].pending
    /\ cmd.answer = "no"
    /\ outcome = "Skipped"

\* C39: when the target connection is not in the listing of a poll of tools
\* connect (it was removed meanwhile), the poll counts as an attempt that
\* found it not connected: the run goes on polling unless this was the
\* 120th attempt, which ends it as AuthorizationTimeout. Such a poll never
\* ends the run as NotFound or as Connected; only a request that raises
\* ends it otherwise.
C39_VanishedEntryPollsToTimeout ==
    [][(/\ pc = "polling"
        /\ polls' = polls + 1
        /\ ~srvConns[cmd.connection_id].exists
        /\ ~pollError') =>
          /\ outcome' \notin {"NotFound", "Connected"}
          /\ IF polls' < max_attempts
             THEN pc' = "polling" /\ outcome' = "none"
             ELSE /\ pc' = "done"
                  /\ outcome' = "AuthorizationTimeout"
                  /\ exitCode' = 1]_vars

\* the connection was removed while the connect was polling, and the run
\* has timed out at its 120th poll
C39_Witness ==
    /\ cmd.name = "tools connect"
    /\ outcome = "AuthorizationTimeout"
    /\ polls = max_attempts
    /\ ~srvConns[cmd.connection_id].exists

=========================================================================
